---------------------------- MODULE Spec2Model ----------------------------
(***************************************************************************)
(* Model of the async-task-manager repository.                             *)
(*                                                                         *)
(* Pull model : async_task_manager  (TaskManager + ConcurrentLimitStrategy, *)
(*              DelayedStrategy, FixedWindowStrategy, Task)                *)
(* Gate model : async_rate_limiter  (RateLimitedTaskManager +              *)
(*              TokenBucketStrategy, Task)                                 *)
(*                                                                         *)
(* Every coroutine of the program is a process whose steps are the code    *)
(* between two suspension points (asyncio runs such a stretch atomically). *)
(* Time is an integer clock `now`; a sleeping coroutine resumes at or      *)
(* after its deadline (it holds the time left to sleep).                   *)
(***************************************************************************)
EXTENDS Integers, Sequences, FiniteSets

(* ------------------------------ bounds -------------------------------- *)
NumTasks == 2      \* tasks created by add_task in one behaviour
MaxTime == 3       \* last clock reading
MaxLimit == 2      \* largest max_concurrent / max_requests / rate tried
MaxPeriod == 2     \* largest delay_seconds / window_seconds / interval tried
MaxLoops == 2      \* run() / _worker() coroutines created in one behaviour
NumWaiters == 2    \* coroutines that call wait() on one task
MaxOtherCalls == 2 \* allow() calls made by a second caller in one behaviour
MaxCalls == 4      \* add_task calls made on a strategy driven directly

(* ------------------------- program constants -------------------------- *)
poll_interval == 1   \* TaskManager(poll_interval = 0.01): one clock unit
worker_delay == 1    \* RateLimitedTaskManager(worker_delay = 0.01)

Tasks == 1..NumTasks
Loops == 1..MaxLoops
Waiters == 1..NumWaiters

Max(a, b) == IF a >= b THEN a ELSE b

\* Optional[T]: None is the empty sequence, a value x is <<x>>.
None == <<>>
Some(x) == <<x>>

\* What add_task may be handed as `coro: Awaitable[T]`: a coroutine object
\* (awaitable once) or a future / asyncio.Task (awaitable any number of times).
AwaitableKinds == {"coroutine", "future"}

VARIABLES
    strategy,        \* the strategy object's configuration (set by __init__)
    now,             \* the clock (time.time / time.monotonic / loop.time)
    created,         \* number of Task objects constructed so far
    coro,            \* Task.coro: kind of awaitable wrapped by each task
    work,            \* state of the wrapped unit of work
    run_calls,       \* number of Task.run invocations per task
    result,          \* Task._result
    result_writes,   \* number of assignments to Task._result in run
    done,            \* Task._done (asyncio.Event)
    caller,          \* position of the coroutine that called add_task
    exec,            \* position of the coroutine dispatched for the task
    notified,        \* strategy.on_task_done calls made for the task
    tasks,           \* pull strategy: self.tasks (deque)
    running,         \* ConcurrentLimitStrategy.running
    request_times,   \* FixedWindowStrategy.request_times (deque)
    last_run,        \* DelayedStrategy._last_run
    mgr_running,     \* TaskManager._running / RateLimitedTaskManager._running
    loops,           \* the run() / _worker() coroutines: position, time left to
                     \* sleep, and whether cancel() was requested
    queue,           \* RateLimitedTaskManager.queue (deque)
    timestamps,      \* TokenBucketStrategy.timestamps (deque)
    lock,            \* TokenBucketStrategy.lock: holder and FIFO waiters
    other,           \* a second coroutine calling strategy.allow() directly
    admitLog,        \* history: admissions in order, <<task, time, last completion>>
    allowLog,        \* history: every timestamp allow() recorded, in order
    last_done_at,    \* history: clock reading of the latest on_task_done
    stopCalled,      \* history: stop() has been called
    stopper,         \* the coroutine that called RateLimitedTaskManager.stop()
    waiter,          \* the coroutines that called Task.wait(), per task
    stopReturned     \* history: a RateLimitedTaskManager.stop() has returned

taskVars == <<created, coro, work, run_calls, result, result_writes, done,
              caller, exec, notified>>
pullVars == <<tasks, running, request_times, last_run>>
gateVars == <<queue, timestamps, lock, other>>
histVars == <<admitLog, allowLog, last_done_at, stopCalled>>
clientVars == <<stopper, waiter, stopReturned>>
vars == <<strategy, now, taskVars, pullVars, mgr_running, loops, gateVars, histVars,
          clientVars>>

(* ----------------------------- deque ---------------------------------- *)
\* mutant of DequeAppend: appendleft(x) in place of append(x)
DequeAppendLeft(q, x) == <<x>> \o q
\* deque.append(x)
DequeAppend(q, x) == Append(q, x)
\* the element deque.popleft() returns
DequePopleft(q) == Head(q)
\* the deque after popleft()
DequeRest(q) == Tail(q)


(* ------------------- ConcurrentLimitStrategy -------------------------- *)
\* mutant of CapGetNextTask: the slot is taken before the queue is looked at
CapGetNextTaskReservesFirst ==
    IF running < strategy.max_concurrent
    THEN IF tasks # <<>>
         THEN [ret |-> Some(DequePopleft(tasks)), tasks |-> DequeRest(tasks),
               running |-> running + 1, request_times |-> request_times]
         ELSE [ret |-> None, tasks |-> tasks,
               running |-> running + 1, request_times |-> request_times]
    ELSE [ret |-> None, tasks |-> tasks,
          running |-> running, request_times |-> request_times]

\* get_next_task: the task returned (ret) and the fields after the call
CapGetNextTask ==
    IF running < strategy.max_concurrent /\ tasks # <<>>
    THEN [ret |-> Some(DequePopleft(tasks)), tasks |-> DequeRest(tasks),
          running |-> running + 1, request_times |-> request_times]
    ELSE [ret |-> None, tasks |-> tasks,
          running |-> running, request_times |-> request_times]

\* get_sleep_interval, read with the counter at value r
CapGetSleepInterval(r) ==
    IF r >= strategy.max_concurrent THEN None ELSE Some(0)

\* mutant of CapOnTaskDone: the counter is left as it is
CapOnTaskDoneKeeps(r) == r

\* on_task_done: the counter after the call
CapOnTaskDone(r) == r - 1

(* ------------------------- DelayedStrategy ---------------------------- *)
DelayedGetNextTask ==
    IF tasks = <<>>
    THEN [ret |-> None, tasks |-> tasks,
          running |-> running, request_times |-> request_times]
    ELSE [ret |-> Some(DequePopleft(tasks)), tasks |-> DequeRest(tasks),
          running |-> running, request_times |-> request_times]

DelayedGetSleepInterval(t) ==
    IF last_run > 0 /\ t - last_run < strategy.delay_seconds
    THEN Some(strategy.delay_seconds - (t - last_run))
    ELSE Some(0)

\* on_task_done: _last_run after the call at clock reading t
DelayedOnTaskDone(t) == t

(* ----------------------- FixedWindowStrategy -------------------------- *)
\* the loop condition of the pruning loop for the oldest entry `oldest`
FWExpired(t, oldest) == t - oldest >= strategy.window_seconds

RECURSIVE FWPrune(_, _)
FWPrune(times, t) ==
    IF times # <<>> /\ FWExpired(t, Head(times))
    THEN FWPrune(DequeRest(times), t)
    ELSE times

\* mutant of FWHasQuota: `<=` in place of `<`
FWHasQuotaOffByOne(times) == Len(times) <= strategy.max_requests
\* the quota test of get_next_task
FWHasQuota(times) == Len(times) < strategy.max_requests

FWGetNextTask(t) ==
    LET pruned == FWPrune(request_times, t) IN
    IF FWHasQuota(pruned) /\ tasks # <<>>
    THEN [ret |-> Some(DequePopleft(tasks)), tasks |-> DequeRest(tasks),
          running |-> running, request_times |-> DequeAppend(pruned, t)]
    ELSE [ret |-> None, tasks |-> tasks,
          running |-> running, request_times |-> pruned]

FWGetSleepInterval(times, t) ==
    IF Len(times) >= strategy.max_requests
    THEN Some(strategy.window_seconds - (t - times[1]))
    ELSE Some(0)

(* ------------------ BaseStrategy dynamic dispatch --------------------- *)
\* The constructors: the strategy object, or the ValueError that __init__
\* raises from its _validate_* methods.
ValueError == [type |-> "ValueError"]

ConcurrentLimitStrategy(max_concurrent) ==
    IF max_concurrent <= 0 THEN ValueError
    ELSE [type |-> "ConcurrentLimitStrategy", max_concurrent |-> max_concurrent]

DelayedStrategy(delay_seconds) ==
    IF delay_seconds <= 0 THEN ValueError
    ELSE [type |-> "DelayedStrategy", delay_seconds |-> delay_seconds]

FixedWindowStrategy(max_requests, window_seconds) ==
    IF max_requests <= 0 \/ window_seconds <= 0 THEN ValueError
    ELSE [type |-> "FixedWindowStrategy", max_requests |-> max_requests,
          window_seconds |-> window_seconds]

\* TokenBucketStrategy.__init__ stores its arguments as they are
TokenBucketStrategy(rate, interval) ==
    [type |-> "TokenBucketStrategy", rate |-> rate, interval |-> interval]

IsCap == strategy.type = "ConcurrentLimitStrategy"
IsDelayed == strategy.type = "DelayedStrategy"
IsWindow == strategy.type = "FixedWindowStrategy"
IsBucket == strategy.type = "TokenBucketStrategy"
IsPull == IsCap \/ IsDelayed \/ IsWindow

\* strategy.add_task(task)
StrategyAddTask(q, t) == DequeAppend(q, t)

\* strategy.get_next_task()
GetNextTask ==
    CASE IsCap -> CapGetNextTask
      [] IsDelayed -> DelayedGetNextTask
      [] IsWindow -> FWGetNextTask(now)

\* strategy.get_sleep_interval(), called right after get_next_task returned r
GetSleepInterval(r) ==
    CASE IsCap -> CapGetSleepInterval(r.running)
      [] IsDelayed -> DelayedGetSleepInterval(now)
      [] IsWindow -> FWGetSleepInterval(r.request_times, now)

(* ------------------------------ Task ---------------------------------- *)
\* Task.run after `await self.coro` returned a value:
\* self._result = value; finally self._done.set(); return self._result
RunReturns(t) ==
    /\ result' = [result EXCEPT ![t] = "value"]
    /\ result_writes' = [result_writes EXCEPT ![t] = @ + 1]
    /\ done' = [done EXCEPT ![t] = TRUE]

\* Task.run after `await self.coro` raised: finally self._done.set(); re-raise
RunRaises(t) ==
    /\ done' = [done EXCEPT ![t] = TRUE]
    /\ UNCHANGED <<result, result_writes>>

(* --------------------------- TaskManager ------------------------------ *)
\* add_task up to its first suspension: Task(coro, metadata),
\* strategy.add_task(task), then task.run() awaits the work in the caller.
AddTask(kind) ==
    /\ IsPull
    /\ created < NumTasks
    /\ LET t == created + 1 IN
        /\ created' = t
        /\ coro' = [coro EXCEPT ![t] = kind]
        /\ tasks' = StrategyAddTask(tasks, t)
        /\ run_calls' = [run_calls EXCEPT ![t] = @ + 1]
        /\ work' = [work EXCEPT ![t] = "running"]
        /\ caller' = [caller EXCEPT ![t] = "in_add_task"]
    /\ UNCHANGED <<strategy, now, result, result_writes, done, exec, notified,
                   running, request_times, last_run, mgr_running, loops,
                   gateVars, histVars, clientVars>>

\* A coroutine handed to add_task finishes: it runs inside the caller of
\* add_task, so Task.run and add_task continue in the same step.
CoroutineReturns(t) ==
    /\ caller[t] = "in_add_task" /\ coro[t] = "coroutine" /\ work[t] = "running"
    /\ work' = [work EXCEPT ![t] = "returned"]
    /\ RunReturns(t)
    /\ caller' = [caller EXCEPT ![t] = "returned"]
    /\ UNCHANGED <<strategy, now, created, coro, run_calls, exec, notified,
                   pullVars, mgr_running, loops, gateVars, histVars,
                   clientVars>>

CoroutineRaises(t) ==
    /\ caller[t] = "in_add_task" /\ coro[t] = "coroutine" /\ work[t] = "running"
    /\ work' = [work EXCEPT ![t] = "raised"]
    /\ RunRaises(t)
    /\ caller' = [caller EXCEPT ![t] = "raised"]
    /\ UNCHANGED <<strategy, now, created, coro, run_calls, exec, notified,
                   pullVars, mgr_running, loops, gateVars, histVars,
                   clientVars>>

\* A future handed to add_task is resolved by its producer; its awaiters
\* (the caller of add_task, the dispatched coroutine) are woken afterwards.
FutureResolves(t, outcome) ==
    /\ caller[t] # "none" /\ coro[t] = "future" /\ work[t] = "running"
    /\ work' = [work EXCEPT ![t] = outcome]
    /\ UNCHANGED <<strategy, now, created, coro, run_calls, result, result_writes,
                   done, caller, exec, notified, pullVars, mgr_running, loops,
                   gateVars, histVars, clientVars>>

\* add_task resumes from `await task.run()` on a resolved future
AddTaskResumes(t) ==
    /\ caller[t] = "in_add_task" /\ coro[t] = "future" /\ work[t] # "running"
    /\ IF work[t] = "returned"
       THEN RunReturns(t) /\ caller' = [caller EXCEPT ![t] = "returned"]
       ELSE RunRaises(t) /\ caller' = [caller EXCEPT ![t] = "raised"]
    /\ UNCHANGED <<strategy, now, created, coro, work, run_calls, exec, notified,
                   pullVars, mgr_running, loops, gateVars, histVars,
                   clientVars>>

\* idle(): asyncio.create_task(self.run())
Idle ==
    /\ IsPull
    /\ \E l \in Loops :
        /\ loops[l].pc = "none"
        /\ \A k \in Loops : k < l => loops[k].pc # "none"
        /\ loops' = [loops EXCEPT ![l] = [pc |-> "created", sleep |-> 0, cancel |-> FALSE]]
    /\ UNCHANGED <<strategy, now, taskVars, pullVars, mgr_running, gateVars, histVars,
                   clientVars>>

\* stop(): self._running = False
Stop ==
    /\ IsPull
    /\ mgr_running' = FALSE
    /\ stopCalled' = TRUE
    /\ UNCHANGED <<strategy, now, taskVars, pullVars, loops, gateVars,
                   admitLog, allowLog, last_done_at, clientVars>>

\* mutant of LoopBody: `await self._execute_task(task)` in place of
\* asyncio.create_task: the failure of the task's run goes into run()
LoopBodyAwaits(l) ==
    LET r == GetNextTask
        interval == GetSleepInterval(r)
        delay == IF interval = None THEN poll_interval ELSE interval[1]
        fails == r.ret # None /\ coro[r.ret[1]] = "coroutine"
    IN  /\ tasks' = r.tasks
        /\ running' = r.running
        /\ request_times' = r.request_times
        /\ IF r.ret # None
           THEN /\ exec' = [exec EXCEPT ![r.ret[1]] =
                                IF fails THEN "crashed" ELSE "scheduled"]
                /\ admitLog' = Append(admitLog,
                       [task |-> r.ret[1], time |-> now, last_done |-> last_done_at])
           ELSE UNCHANGED <<exec, admitLog>>
        /\ loops' = [loops EXCEPT ![l] =
                        IF fails THEN [pc |-> "crashed", sleep |-> 0, cancel |-> FALSE]
                        ELSE [pc |-> "sleeping", sleep |-> Max(delay, 0), cancel |-> FALSE]]

\* One pass of the body of `while self._running` in run(), up to the sleep.
LoopBody(l) ==
    LET r == GetNextTask
        interval == GetSleepInterval(r)
        delay == IF interval = None THEN poll_interval ELSE interval[1]
    IN  /\ tasks' = r.tasks
        /\ running' = r.running
        /\ request_times' = r.request_times
        /\ IF r.ret # None
           THEN /\ exec' = [exec EXCEPT ![r.ret[1]] = "scheduled"]
                /\ admitLog' = Append(admitLog,
                       [task |-> r.ret[1], time |-> now, last_done |-> last_done_at])
           ELSE UNCHANGED <<exec, admitLog>>
        /\ loops' = [loops EXCEPT ![l] = [pc |-> "sleeping", sleep |-> Max(delay, 0), cancel |-> FALSE]]

\* run() starts: self._running = True, then the first pass of the loop
LoopStart(l) ==
    /\ IsPull
    /\ loops[l].pc = "created"
    /\ mgr_running' = TRUE
    /\ LoopBody(l)
    /\ UNCHANGED <<strategy, now, created, coro, work, run_calls, result,
                   result_writes, done, caller, notified, last_run, gateVars,
                   allowLog, last_done_at, stopCalled, clientVars>>

\* run() wakes from its sleep, finds self._running set and makes another pass
LoopIterate(l) ==
    /\ IsPull
    /\ loops[l].pc = "sleeping" /\ loops[l].sleep = 0
    /\ mgr_running
    /\ LoopBody(l)
    /\ UNCHANGED <<strategy, now, created, coro, work, run_calls, result,
                   result_writes, done, caller, notified, last_run, mgr_running,
                   gateVars, allowLog, last_done_at, stopCalled, clientVars>>

\* run() wakes from its sleep, finds self._running cleared and returns
LoopExit(l) ==
    /\ IsPull
    /\ loops[l].pc = "sleeping" /\ loops[l].sleep = 0
    /\ ~mgr_running
    /\ loops' = [loops EXCEPT ![l] = [pc |-> "exited", sleep |-> 0, cancel |-> FALSE]]
    /\ UNCHANGED <<strategy, now, taskVars, pullVars, mgr_running, gateVars, histVars,
                   clientVars>>

\* `await self.strategy.on_task_done()` in _execute_task for task t.  The
\* strategy's lock is never held across a suspension, so the call is one step.
NotifyDone(t) ==
    /\ notified' = [notified EXCEPT ![t] = @ + 1]
    /\ running' = IF IsCap THEN CapOnTaskDone(running) ELSE running
    /\ last_run' = IF IsDelayed THEN DelayedOnTaskDone(now) ELSE last_run
    /\ last_done_at' = now

\* _execute_task after task.run() returned: the notification, then the end
ExecuteTaskReturns(t) ==
    /\ RunReturns(t)
    /\ NotifyDone(t)
    /\ exec' = [exec EXCEPT ![t] = "finished"]

\* _execute_task after task.run() raised: the exception leaves _execute_task
ExecuteTaskRaises(t) ==
    /\ RunRaises(t)
    /\ exec' = [exec EXCEPT ![t] = "crashed"]
    /\ UNCHANGED <<notified, running, last_run, last_done_at>>

\* The dispatched _execute_task starts: task.run() awaits self.coro again.
\* A coroutine object that is being awaited or was awaited raises RuntimeError.
ExecStartCoroutine(t) ==
    /\ IsPull
    /\ exec[t] = "scheduled" /\ coro[t] = "coroutine"
    /\ run_calls' = [run_calls EXCEPT ![t] = @ + 1]
    /\ ExecuteTaskRaises(t)
    /\ UNCHANGED <<strategy, now, created, coro, work, caller, tasks,
                   request_times, mgr_running, loops, gateVars, admitLog, allowLog, stopCalled,
                   clientVars>>

\* The dispatched _execute_task starts on a future: it suspends on a pending
\* future and goes on at once with the outcome of a resolved one.
ExecStartFuture(t) ==
    /\ IsPull
    /\ exec[t] = "scheduled" /\ coro[t] = "future"
    /\ run_calls' = [run_calls EXCEPT ![t] = @ + 1]
    /\ CASE work[t] = "running" ->
              /\ exec' = [exec EXCEPT ![t] = "in_run"]
              /\ UNCHANGED <<result, result_writes, done, notified, running,
                             last_run, last_done_at>>
         [] work[t] = "returned" -> ExecuteTaskReturns(t)
         [] work[t] = "raised" -> ExecuteTaskRaises(t)
    /\ UNCHANGED <<strategy, now, created, coro, work, caller, tasks,
                   request_times, mgr_running, loops, gateVars, admitLog, allowLog, stopCalled,
                   clientVars>>

\* The dispatched _execute_task resumes once the future it awaits is resolved.
ExecResume(t) ==
    /\ IsPull
    /\ exec[t] = "in_run" /\ work[t] # "running"
    /\ IF work[t] = "returned" THEN ExecuteTaskReturns(t) ELSE ExecuteTaskRaises(t)
    /\ UNCHANGED <<strategy, now, created, coro, work, run_calls, caller, tasks,
                   request_times, mgr_running, loops, gateVars, admitLog, allowLog, stopCalled,
                   clientVars>>

(* ----------------------------- Task.wait ------------------------------ *)
\* what wait() hands back: `return self._result`, which run() has assigned
\* only if the work returned (None otherwise)
WaitResult(t) == IF result[t] = "value" THEN "value" ELSE "None"

\* a coroutine calls task.wait(): it goes through at once if the completion
\* signal is set and suspends on `await self._done.wait()` if not
WaitCall(t, w) ==
    /\ t <= created
    /\ waiter[t][w] = "none"
    /\ waiter' = [waiter EXCEPT ![t][w] = IF done[t] THEN WaitResult(t) ELSE "waiting"]
    /\ UNCHANGED <<strategy, now, taskVars, pullVars, mgr_running, loops, gateVars,
                   histVars, stopper, stopReturned>>

\* a suspended wait() resumes after the completion signal was set
WaitResumes(t, w) ==
    /\ waiter[t][w] = "waiting"
    /\ done[t]
    /\ waiter' = [waiter EXCEPT ![t][w] = WaitResult(t)]
    /\ UNCHANGED <<strategy, now, taskVars, pullVars, mgr_running, loops, gateVars,
                   histVars, stopper, stopReturned>>

(* ------------------------------ clock --------------------------------- *)
\* The clock advances by one unit; every pending asyncio.sleep gets one unit
\* closer to its deadline.
Tick ==
    /\ now < MaxTime
    /\ now' = now + 1
    /\ loops' = [l \in Loops |-> [loops[l] EXCEPT !.sleep = Max(@ - 1, 0)]]
    /\ other' = [other EXCEPT !.sleep = Max(@ - 1, 0)]
    /\ UNCHANGED <<strategy, taskVars, pullVars, mgr_running, queue, timestamps,
                   lock, histVars, clientVars>>

(* ----------------------- TokenBucketStrategy ------------------------- *)
\* the loop condition of the pruning loop of allow() for the oldest entry
TBExpired(t, oldest) == t - oldest > strategy.interval

RECURSIVE TBPrune(_, _)
TBPrune(ts, t) ==
    IF ts # <<>> /\ TBExpired(t, Head(ts))
    THEN TBPrune(DequeRest(ts), t)
    ELSE ts

\* allow() from the lock acquired to its suspension or its end: the
\* timestamps after it and the sleep it asks for (None: it did not sleep
\* and has recorded its timestamp).  `self.timestamps[0]` on an empty deque
\* raises IndexError.
AllowEnter(ts, t) ==
    LET pruned == TBPrune(ts, t) IN
    IF Len(pruned) >= strategy.rate
    THEN IF pruned = <<>>
         THEN [timestamps |-> pruned, wait |-> None, raised |-> TRUE]
         ELSE [timestamps |-> pruned,
               wait |-> Some(strategy.interval - (t - pruned[1])),
               raised |-> FALSE]
    ELSE [timestamps |-> DequeAppend(pruned, t), wait |-> None, raised |-> FALSE]

\* allow() after its sleep: self.timestamps.append(time.monotonic())
AllowResume(ts, t) == DequeAppend(ts, t)

\* mutant of LockBusy: allow() without `async with self.lock`
LockNeverBusy(lk) == FALSE

\* asyncio.Lock: acquire() takes a free lock with no waiter at once, any
\* other caller queues; release() hands the lock to the first waiter.
LockBusy(lk) == lk.holder # None \/ lk.waiters # <<>>
LockRelease(lk) ==
    IF lk.waiters = <<>>
    THEN [holder |-> None, waiters |-> <<>>]
    ELSE [holder |-> Some(Head(lk.waiters)), waiters |-> Tail(lk.waiters)]

\* a waiter that is cancelled leaves the queue
RECURSIVE Without(_, _)
Without(q, x) ==
    IF q = <<>> THEN <<>>
    ELSE IF Head(q) = x THEN Without(Tail(q), x)
    ELSE <<Head(q)>> \o Without(Tail(q), x)

\* identity of the second caller of allow() as a lock owner (workers are Loops)
OtherId == MaxLoops + 1

(* --------------------- RateLimitedTaskManager ------------------------- *)
\* add_task: self.queue.append(Task(coro)); the coroutine is not started
GateAddTask ==
    /\ IsBucket
    /\ created < NumTasks
    /\ LET t == created + 1 IN
        /\ created' = t
        /\ coro' = [coro EXCEPT ![t] = "coroutine"]
        /\ queue' = DequeAppend(queue, t)
        /\ caller' = [caller EXCEPT ![t] = "returned"]
    /\ UNCHANGED <<strategy, now, work, run_calls, result, result_writes, done,
                   exec, notified, pullVars, mgr_running, loops, timestamps,
                   lock, other, histVars, clientVars>>

\* self._task: the worker created last
WorkerTask ==
    IF \E l \in Loops : loops[l].pc # "none"
    THEN Some(CHOOSE l \in Loops :
                 /\ loops[l].pc # "none"
                 /\ \A k \in Loops : k > l => loops[k].pc = "none")
    ELSE None

\* start(): if not self._running: set it and create the worker
GateStart ==
    /\ IsBucket
    /\ ~mgr_running
    /\ \E l \in Loops :
        /\ loops[l].pc = "none"
        /\ \A k \in Loops : k < l => loops[k].pc # "none"
        /\ loops' = [loops EXCEPT ![l] = [pc |-> "created", sleep |-> 0, cancel |-> FALSE]]
    /\ mgr_running' = TRUE
    /\ UNCHANGED <<strategy, now, taskVars, pullVars, gateVars, histVars,
                   clientVars>>

WorkerLive(l) == loops[l].pc \in {"created", "idle_sleep", "allow_lock", "allow_sleep"}

WorkerEnded(l) == loops[l].pc \in {"exited", "cancelled", "crashed"}

\* stop() up to `await self._task`: clear the flag, cancel the worker.  With
\* no worker, or with a worker that has ended, stop() does not suspend.
GateStop ==
    /\ IsBucket
    /\ stopper.pc = "idle"
    /\ mgr_running' = FALSE
    /\ stopCalled' = TRUE
    /\ IF WorkerTask # None /\ WorkerLive(WorkerTask[1])
       THEN /\ loops' = [loops EXCEPT ![WorkerTask[1]].cancel = TRUE]
            /\ stopper' = [pc |-> "awaiting", target |-> WorkerTask]
            /\ UNCHANGED stopReturned
       ELSE /\ stopReturned' = TRUE
            /\ UNCHANGED <<loops, stopper>>
    /\ UNCHANGED <<strategy, now, taskVars, pullVars, gateVars,
                   admitLog, allowLog, last_done_at, waiter>>

\* stop() resumes from `await self._task` once that worker has ended, and
\* returns (the CancelledError of the worker is caught)
GateStopReturns ==
    /\ IsBucket
    /\ stopper.pc = "awaiting"
    /\ WorkerEnded(stopper.target[1])
    /\ stopper' = [pc |-> "idle", target |-> None]
    /\ stopReturned' = TRUE
    /\ UNCHANGED <<strategy, now, taskVars, pullVars, mgr_running, loops, gateVars,
                   histVars, waiter>>

\* The worker runs from one suspension to the next.  s holds what it has
\* done so far in this step: the queue, the strategy's timestamps and lock,
\* the tasks it dispatched, and where it suspends.
RECURSIVE WorkerLoop(_, _), WorkerAllow(_, _), WorkerDispatch(_, _)

\* top of `while self._running`
WorkerLoop(l, s) ==
    IF ~mgr_running THEN [s EXCEPT !.pc = "exited"]
    ELSE IF s.queue = <<>>
    THEN [s EXCEPT !.pc = "idle_sleep", !.sleep = worker_delay]
    ELSE IF LockBusy(s.lock)
    THEN [s EXCEPT !.pc = "allow_lock",
                   !.lock.waiters = Append(s.lock.waiters, l)]
    ELSE WorkerAllow(l, [s EXCEPT !.lock.holder = Some(l)])

\* allow() with the lock held
WorkerAllow(l, s) ==
    LET a == AllowEnter(s.timestamps, now) IN
    IF a.raised
    THEN [s EXCEPT !.timestamps = a.timestamps, !.lock = LockRelease(s.lock),
                   !.pc = "crashed"]
    ELSE IF a.wait # None
    THEN [s EXCEPT !.timestamps = a.timestamps, !.pc = "allow_sleep",
                   !.sleep = a.wait[1]]
    ELSE WorkerDispatch(l, [s EXCEPT !.timestamps = a.timestamps,
                                     !.allowLog = Append(s.allowLog, now),
                                     !.lock = LockRelease(s.lock)])

\* task = self.queue.popleft(); asyncio.create_task(task.run())
WorkerDispatch(l, s) ==
    IF s.queue = <<>> THEN [s EXCEPT !.pc = "crashed"]
    ELSE WorkerLoop(l, [s EXCEPT
             !.queue = DequeRest(s.queue),
             !.exec = [s.exec EXCEPT ![DequePopleft(s.queue)] = "scheduled"],
             !.admitLog = Append(s.admitLog,
                  [task |-> DequePopleft(s.queue), time |-> now,
                   last_done |-> last_done_at])])

WorkerState ==
    [queue |-> queue, timestamps |-> timestamps, lock |-> lock, exec |-> exec,
     admitLog |-> admitLog, allowLog |-> allowLog, pc |-> "running", sleep |-> 0]

WorkerCommit(l, s) ==
    /\ queue' = s.queue
    /\ timestamps' = s.timestamps
    /\ lock' = s.lock
    /\ exec' = s.exec
    /\ admitLog' = s.admitLog
    /\ allowLog' = s.allowLog
    /\ loops' = [loops EXCEPT ![l] = [pc |-> s.pc, sleep |-> s.sleep, cancel |-> FALSE]]
    /\ UNCHANGED <<strategy, now, created, coro, work, run_calls, result,
                   result_writes, done, caller, notified, pullVars, mgr_running,
                   other, last_done_at, stopCalled, clientVars>>

\* the worker coroutine starts
WorkerStart(l) ==
    /\ IsBucket
    /\ loops[l].pc = "created" /\ ~loops[l].cancel
    /\ WorkerCommit(l, WorkerLoop(l, WorkerState))

\* the worker wakes from `await asyncio.sleep(self.delay)`
WorkerWakeIdle(l) ==
    /\ IsBucket
    /\ loops[l].pc = "idle_sleep" /\ loops[l].sleep = 0 /\ ~loops[l].cancel
    /\ WorkerCommit(l, WorkerLoop(l, WorkerState))

\* the worker is handed the lock it waited for in allow()
WorkerLockGranted(l) ==
    /\ IsBucket
    /\ loops[l].pc = "allow_lock" /\ lock.holder = Some(l) /\ ~loops[l].cancel
    /\ WorkerCommit(l, WorkerAllow(l, WorkerState))

\* the worker wakes from the sleep inside allow()
WorkerWakeAllow(l) ==
    /\ IsBucket
    /\ loops[l].pc = "allow_sleep" /\ loops[l].sleep = 0 /\ ~loops[l].cancel
    /\ WorkerCommit(l, WorkerDispatch(l, [WorkerState EXCEPT
           !.timestamps = AllowResume(timestamps, now),
           !.allowLog = Append(allowLog, now),
           !.lock = LockRelease(lock)]))

\* CancelledError reaches the worker where it is suspended; `async with`
\* releases a lock it holds, a waiter leaves the lock's queue.
WorkerCancelled(l) ==
    /\ IsBucket
    /\ WorkerLive(l) /\ loops[l].cancel
    /\ lock' = IF lock.holder = Some(l) THEN LockRelease(lock)
               ELSE [lock EXCEPT !.waiters = Without(lock.waiters, l)]
    /\ loops' = [loops EXCEPT ![l] = [pc |-> "cancelled", sleep |-> 0, cancel |-> FALSE]]
    /\ UNCHANGED <<strategy, now, taskVars, pullVars, mgr_running, queue,
                   timestamps, other, histVars, clientVars>>

\* Task.run of a dispatched task starts: `await self.coro`
GateRunStart(t) ==
    /\ IsBucket
    /\ exec[t] = "scheduled"
    /\ run_calls' = [run_calls EXCEPT ![t] = @ + 1]
    /\ work' = [work EXCEPT ![t] = "running"]
    /\ exec' = [exec EXCEPT ![t] = "in_run"]
    /\ UNCHANGED <<strategy, now, created, coro, result, result_writes, done,
                   caller, notified, pullVars, mgr_running, loops, gateVars, histVars,
                   clientVars>>

\* the work ends; Task.run returns, after printing the error of a failure
GateRunEnd(t, outcome) ==
    /\ IsBucket
    /\ exec[t] = "in_run"
    /\ work' = [work EXCEPT ![t] = outcome]
    /\ exec' = [exec EXCEPT ![t] = "finished"]
    /\ UNCHANGED <<strategy, now, created, coro, run_calls, result, result_writes,
                   done, caller, notified, pullVars, mgr_running, loops, gateVars,
                   histVars, clientVars>>

(* -------------- a second caller of strategy.allow() ------------------- *)
\* allow() calls the second caller has completed: the timestamps recorded
\* that are not the worker's (the worker records one per task it dispatches)
OtherCalls == Len(allowLog) - Len(admitLog)

\* allow() is called while no call of this caller is pending
OtherAllow ==
    /\ IsBucket
    /\ other.pc = "idle"
    /\ OtherCalls < MaxOtherCalls
    /\ IF LockBusy(lock)
       THEN /\ lock' = [lock EXCEPT !.waiters = Append(@, OtherId)]
            /\ other' = [pc |-> "allow_lock", sleep |-> 0]
            /\ UNCHANGED <<timestamps, allowLog>>
       ELSE LET a == AllowEnter(timestamps, now) IN
            /\ timestamps' = a.timestamps
            /\ IF a.raised
               THEN UNCHANGED <<lock, other, allowLog>>
               ELSE IF a.wait # None
               THEN /\ lock' = [lock EXCEPT !.holder = Some(OtherId)]
                    /\ other' = [pc |-> "allow_sleep", sleep |-> a.wait[1]]
                    /\ UNCHANGED allowLog
               ELSE /\ allowLog' = Append(allowLog, now)
                    /\ UNCHANGED <<lock, other>>
    /\ UNCHANGED <<strategy, now, taskVars, pullVars, mgr_running, loops, queue,
                   admitLog, last_done_at, stopCalled, clientVars>>

\* the second caller is handed the lock
OtherLockGranted ==
    /\ IsBucket
    /\ other.pc = "allow_lock" /\ lock.holder = Some(OtherId)
    /\ LET a == AllowEnter(timestamps, now) IN
        /\ timestamps' = a.timestamps
        /\ IF a.raised
           THEN /\ lock' = LockRelease(lock)
                /\ other' = [pc |-> "idle", sleep |-> 0]
                /\ UNCHANGED allowLog
           ELSE IF a.wait # None
           THEN /\ other' = [pc |-> "allow_sleep", sleep |-> a.wait[1]]
                /\ UNCHANGED <<lock, allowLog>>
           ELSE /\ allowLog' = Append(allowLog, now)
                /\ lock' = LockRelease(lock)
                /\ other' = [pc |-> "idle", sleep |-> 0]
    /\ UNCHANGED <<strategy, now, taskVars, pullVars, mgr_running, loops, queue,
                   admitLog, last_done_at, stopCalled, clientVars>>

\* the second caller wakes from the sleep inside allow()
OtherWakeAllow ==
    /\ IsBucket
    /\ other.pc = "allow_sleep" /\ other.sleep = 0
    /\ timestamps' = AllowResume(timestamps, now)
    /\ allowLog' = Append(allowLog, now)
    /\ lock' = LockRelease(lock)
    /\ other' = [pc |-> "idle", sleep |-> 0]
    /\ UNCHANGED <<strategy, now, taskVars, pullVars, mgr_running, loops, queue,
                   admitLog, last_done_at, stopCalled, clientVars>>

(* --------------- FixedWindowStrategy driven directly ------------------ *)
\* a client calls strategy.add_task(task) with a new task
DirectAddTask ==
    /\ IsWindow
    /\ created < MaxCalls
    /\ created' = created + 1
    /\ tasks' = StrategyAddTask(tasks, created + 1)
    /\ UNCHANGED <<strategy, now, coro, work, run_calls, result, result_writes,
                   done, caller, exec, notified, running, request_times, last_run,
                   mgr_running, loops, gateVars, histVars, clientVars>>

\* a client calls strategy.get_next_task() at the present clock reading
DirectGetNextTask ==
    /\ IsWindow
    /\ LET r == FWGetNextTask(now) IN
        /\ tasks' = r.tasks
        /\ request_times' = r.request_times
        /\ admitLog' = IF r.ret # None
                       THEN Append(admitLog, [task |-> r.ret[1], time |-> now,
                                              last_done |-> last_done_at])
                       ELSE admitLog
    /\ UNCHANGED <<strategy, now, taskVars, running, last_run, mgr_running, loops,
                   gateVars, allowLog, last_done_at, stopCalled, clientVars>>

(* --------------------------- initial states --------------------------- *)
InitCommon ==
    /\ now = 1
    /\ created = 0
    /\ coro = [t \in Tasks |-> "none"]
    /\ work = [t \in Tasks |-> "none"]
    /\ run_calls = [t \in Tasks |-> 0]
    /\ result = [t \in Tasks |-> "unset"]
    /\ result_writes = [t \in Tasks |-> 0]
    /\ done = [t \in Tasks |-> FALSE]
    /\ caller = [t \in Tasks |-> "none"]
    /\ exec = [t \in Tasks |-> "none"]
    /\ notified = [t \in Tasks |-> 0]
    /\ tasks = <<>>
    /\ running = 0
    /\ request_times = <<>>
    /\ last_run = 0
    /\ mgr_running = FALSE
    /\ loops = [l \in Loops |-> [pc |-> "none", sleep |-> 0, cancel |-> FALSE]]
    /\ queue = <<>>
    /\ timestamps = <<>>
    /\ lock = [holder |-> None, waiters |-> <<>>]
    /\ other = [pc |-> "idle", sleep |-> 0]
    /\ admitLog = <<>>
    /\ allowLog = <<>>
    /\ last_done_at = 0
    /\ stopCalled = FALSE
    /\ stopper = [pc |-> "idle", target |-> None]
    /\ waiter = [t \in Tasks |-> [w \in Waiters |-> "none"]]
    /\ stopReturned = FALSE

\* TaskManager(ConcurrentLimitStrategy(max_concurrent))
InitCap ==
    /\ \E n \in 1..MaxLimit :
         strategy = ConcurrentLimitStrategy(n)
    /\ InitCommon

\* TaskManager(DelayedStrategy(delay_seconds))
InitDelayed ==
    /\ \E d \in 1..MaxPeriod :
         strategy = DelayedStrategy(d)
    /\ InitCommon

\* TaskManager(FixedWindowStrategy(max_requests, window_seconds))
InitWindow ==
    /\ \E n \in 1..MaxLimit, w \in 1..MaxPeriod :
         strategy = FixedWindowStrategy(n, w)
    /\ InitCommon

\* RateLimitedTaskManager(TokenBucketStrategy(rate, interval))
InitGate ==
    /\ \E r \in 1..MaxLimit, i \in 1..MaxPeriod :
         strategy = TokenBucketStrategy(r, i)
    /\ InitCommon

\* any strategy constructor called with any arguments, non-positive ones
\* included; a strategy that was constructed goes into its dispatcher
InitConstruct ==
    /\ \E n \in -1..MaxLimit, p \in -1..MaxPeriod :
         strategy \in {ConcurrentLimitStrategy(n), DelayedStrategy(p),
                       FixedWindowStrategy(n, p), TokenBucketStrategy(n, p)}
    /\ InitCommon

Init == InitCap \/ InitDelayed \/ InitWindow \/ InitGate

(* -------------------------- specifications ---------------------------- *)
NextPull ==
    \/ \E kind \in AwaitableKinds : AddTask(kind)
    \/ \E t \in Tasks : CoroutineReturns(t)
    \/ \E t \in Tasks : CoroutineRaises(t)
    \/ \E t \in Tasks, outcome \in {"returned", "raised"} : FutureResolves(t, outcome)
    \/ \E t \in Tasks : AddTaskResumes(t)
    \/ Idle
    \/ Stop
    \/ \E l \in Loops : LoopStart(l)
    \/ \E l \in Loops : LoopIterate(l)
    \/ \E l \in Loops : LoopExit(l)
    \/ \E t \in Tasks : ExecStartCoroutine(t)
    \/ \E t \in Tasks : ExecStartFuture(t)
    \/ \E t \in Tasks : ExecResume(t)
    \/ Tick

NextGate ==
    \/ GateAddTask
    \/ GateStart
    \/ GateStop
    \/ GateStopReturns
    \/ \E l \in Loops : WorkerStart(l)
    \/ \E l \in Loops : WorkerWakeIdle(l)
    \/ \E l \in Loops : WorkerLockGranted(l)
    \/ \E l \in Loops : WorkerWakeAllow(l)
    \/ \E l \in Loops : WorkerCancelled(l)
    \/ \E t \in Tasks : GateRunStart(t)
    \/ \E t \in Tasks, outcome \in {"returned", "raised"} : GateRunEnd(t, outcome)
    \/ OtherAllow
    \/ OtherLockGranted
    \/ OtherWakeAllow
    \/ Tick

NextDirect ==
    \/ DirectAddTask
    \/ DirectGetNextTask
    \/ Tick

\* tasks created by TaskManager.add_task and coroutines waiting on them
NextTask ==
    \/ \E kind \in AwaitableKinds : AddTask(kind)
    \/ \E t \in Tasks : CoroutineReturns(t)
    \/ \E t \in Tasks : CoroutineRaises(t)
    \/ \E t \in Tasks, outcome \in {"returned", "raised"} : FutureResolves(t, outcome)
    \/ \E t \in Tasks : AddTaskResumes(t)
    \/ \E t \in Tasks, w \in Waiters : WaitCall(t, w)
    \/ \E t \in Tasks, w \in Waiters : WaitResumes(t, w)

Next == NextPull \/ NextGate

\* either dispatcher with any of its strategies
Spec == Init /\ [][Next]_vars
\* TaskManager driving a ConcurrentLimitStrategy
SpecCap == InitCap /\ [][NextPull]_vars
\* TaskManager driving a DelayedStrategy
SpecDelayed == InitDelayed /\ [][NextPull]_vars
\* TaskManager driving a FixedWindowStrategy
SpecWindow == InitWindow /\ [][NextPull]_vars
\* RateLimitedTaskManager driving a TokenBucketStrategy
SpecGate == InitGate /\ [][NextGate]_vars
\* a FixedWindowStrategy whose add_task and get_next_task are called directly
SpecWindowDirect == InitWindow /\ [][NextDirect]_vars
\* the tasks of a TaskManager whose loop is not started, and their waiters
SpecTask == InitCap /\ [][NextTask]_vars
\* any constructor call; a TokenBucketStrategy it made drives the gate model
SpecConstruct == InitConstruct /\ [][NextGate]_vars

(* ============================== claims ================================ *)

\* tasks whose work was started by a Task.run and has not finished
WorkInProgress == {t \in Tasks : run_calls[t] > 0 /\ work[t] = "running"}

\* C1: with ConcurrentLimitStrategy(max_concurrent = N) under TaskManager,
\* the number of tasks whose work has been started and has not yet finished
\* is at most N in every reachable state.
C1_WorkInProgressWithinCap ==
    IsCap => Cardinality(WorkInProgress) <= strategy.max_concurrent

\* C2: Task.run is invoked at most once for every task created through
\* TaskManager.add_task (add_task's and _execute_task's invocations counted
\* together), and the result slot is written at most once.
C2_RunInvokedOnce ==
    \A t \in Tasks : run_calls[t] <= 1 /\ result_writes[t] <= 1

\* dispatched coroutines that have ended, one way or the other
Ended(t) == exec[t] \in {"finished", "crashed"}

\* C3: every dispatched task whose run has finished, by returning or by
\* raising, has triggered exactly one on_task_done, and with
\* ConcurrentLimitStrategy the counter is back at 0 once every dispatched
\* task has finished.
C3_NotifiedOncePerDispatch ==
    /\ \A t \in Tasks : Ended(t) => notified[t] = 1
    /\ (IsCap /\ \A t \in Tasks : exec[t] \in {"none", "finished", "crashed"})
          => running = 0

\* admissions whose admit-time lies in the window [s, s + w)
AdmittedIn(s, w) ==
    {i \in DOMAIN admitLog : s <= admitLog[i].time /\ admitLog[i].time < s + w}

\* C4: with FixedWindowStrategy(max_requests = N, window_seconds = W), every
\* window of length W, wherever it starts, holds at most N admissions.
C4_WindowQuota ==
    \A s \in 0..MaxTime :
        Cardinality(AdmittedIn(s, strategy.window_seconds)) <= strategy.max_requests

\* C4 witness: more tasks were admitted than one window allows, and some
\* window is full.
C4_Witness ==
    /\ Len(admitLog) > strategy.max_requests
    /\ \E s \in 0..MaxTime :
         Cardinality(AdmittedIn(s, strategy.window_seconds)) = strategy.max_requests

\* timestamps recorded by allow() in the trailing interval (t - i, t]
AllowedIn(t, i) ==
    {j \in DOMAIN allowLog : t - i < allowLog[j] /\ allowLog[j] <= t}

\* C5: with TokenBucketStrategy(rate = R, interval = I), every trailing
\* interval of length I holds at most R timestamps recorded by allow().
C5_RateWithinInterval ==
    \A j \in DOMAIN allowLog :
        Cardinality(AllowedIn(allowLog[j], strategy.interval)) <= strategy.rate

\* C6: with DelayedStrategy(delay_seconds = d), every admission that follows
\* a completion happens at least d after the latest completion before it.
C6_DelayAfterCompletion ==
    \A i \in DOMAIN admitLog :
        admitLog[i].last_done > 0 =>
            admitLog[i].time - admitLog[i].last_done >= strategy.delay_seconds

\* C7: with DelayedStrategy at most one dispatched task is running and
\* unfinished at any time.
C7_OneInFlight ==
    Cardinality({t \in Tasks : exec[t] = "in_run"}) <= 1

\* C8: admission is FIFO.  Tasks are numbered in the order add_task enqueued
\* them, so the i-th admission is that of task i.
C8_AdmissionIsFifo ==
    \A i \in DOMAIN admitLog : admitLog[i].task = i

\* C8 witness: at least two tasks were enqueued and all of them were admitted.
C8_Witness ==
    /\ Len(admitLog) >= 2
    /\ Len(admitLog) = created

\* C9: no caller is ever suspended inside add_task: add_task returns once
\* the task is queued.
C9_AddTaskDoesNotBlock ==
    \A t \in Tasks : caller[t] # "in_add_task"

\* C10: once stop() has been called on a TaskManager, no task is admitted.
C10_NoAdmissionAfterStop ==
    [][stopCalled => admitLog' = admitLog]_vars


\* C11: once a RateLimitedTaskManager.stop() has returned, the tasks still
\* queued are never dispatched: no step after it admits a task.
C11_NoDispatchAfterStopReturned == [][stopReturned => admitLog' = admitLog]_vars

\* C12: stopped is terminal: once stop() has been called the dispatcher's
\* running flag is never set again.
C12_StoppedIsTerminal == stopCalled => ~mgr_running

\* admission loops that have been created, have not ended and have not been
\* cancelled by stop()
ActiveLoops ==
    {l \in Loops : /\ loops[l].pc \in {"created", "sleeping", "idle_sleep",
                                        "allow_lock", "allow_sleep"}
                   /\ ~loops[l].cancel}

\* C13: start is idempotent: a dispatcher never has more than one admission
\* loop at a time.
C13_OneAdmissionLoop == Cardinality(ActiveLoops) <= 1

\* C14: a wait() that has ended reports the task's outcome: it returned the
\* value of a task that succeeded and raised the error of a task that failed.
C14_WaitReportsOutcome ==
    \A t \in Tasks, w \in Waiters :
        waiter[t][w] \notin {"none", "waiting"} =>
            waiter[t][w] = (IF work[t] = "raised" THEN "raised" ELSE "value")

\* the limit and the period a strategy object was constructed with
StrategyBounds ==
    CASE IsCap -> {strategy.max_concurrent}
      [] IsDelayed -> {strategy.delay_seconds}
      [] IsWindow -> {strategy.max_requests, strategy.window_seconds}
      [] IsBucket -> {strategy.rate, strategy.interval}
      [] OTHER -> {}

\* C15: every strategy constructor rejects a non-positive limit, rate, delay,
\* interval or window: no strategy object holds one.
C15_BoundsArePositive == \A b \in StrategyBounds : b > 0

\* dispatched tasks whose _execute_task has not ended: the only coroutines
\* that can still call on_task_done
InFlight == {t \in Tasks : exec[t] \in {"scheduled", "in_run"}}

\* C16: every enqueued task is eventually admitted: while a task is queued
\* and no dispatched task is left to give a slot back, a slot is free (if
\* none is, get_next_task returns None from then on and the task is never
\* admitted, whatever the scheduling).
C16_QueuedTaskCanBeAdmitted ==
    (IsCap /\ tasks # <<>> /\ InFlight = {}) => running < strategy.max_concurrent

\* dispatched tasks whose run failed: _execute_task ended with the exception
\* (pull model), or Task.run ended after the work raised (gate model)
FailedDispatches ==
    {t \in Tasks : exec[t] = "crashed" \/ (exec[t] = "finished" /\ work[t] = "raised")}

\* C17: a failure raised by a task's work never ends the admission loop: a
\* loop that has ended was ended by stop().
C17_LoopSurvivesFailures ==
    \A l \in Loops : loops[l].pc \in {"exited", "cancelled", "crashed"} => stopCalled

\* a dispatched task has failed, stop() was never called, and the loop that
\* dispatched it is suspended in its sleep, ready for its next pass
C17_Witness ==
    /\ FailedDispatches # {}
    /\ ~stopCalled
    /\ \E l \in Loops : loops[l].pc \in {"sleeping", "idle_sleep"}

\* s is what is left of q after entries were removed from its front
RECURSIVE IsSuffix(_, _)
IsSuffix(s, q) == s = q \/ (q # <<>> /\ IsSuffix(s, Tail(q)))

\* C18: an empty queue admits nothing and consumes no capacity.  Pull model:
\* a step taken with no task queued admits none, does not raise the running
\* counter and at most prunes request_times.  Gate model: a step of a worker
\* taken with no task queued admits none and records no timestamp.
C18_EmptyQueueConsumesNothing ==
    [][ /\ (IsPull /\ tasks = <<>>) =>
             /\ admitLog' = admitLog
             /\ running' <= running
             /\ IsSuffix(request_times', request_times)
        /\ (IsBucket /\ queue = <<>>) =>
             /\ admitLog' = admitLog
             /\ loops' # loops => (timestamps' = timestamps /\ allowLog' = allowLog)
      ]_vars

\* a loop has made a pass while no task had ever been enqueued, and is back
\* in its sleep with nothing admitted and no capacity used
C18_Witness ==
    /\ created = 0
    /\ \E l \in Loops : loops[l].pc \in {"sleeping", "idle_sleep"}
    /\ admitLog = <<>> /\ running = 0 /\ request_times = <<>>

\* callers of allow() between the pruning and the recording of their
\* timestamp: those suspended in the sleep inside allow()
InsideAllow ==
    {l \in Loops : loops[l].pc = "allow_sleep"}
        \cup (IF other.pc = "allow_sleep" THEN {OtherId} ELSE {})

\* C19: allow() serializes its callers: at most one caller is inside it, that
\* caller holds the lock while it sleeps, and the timestamps are recorded in
\* non-decreasing order.
C19_AllowIsSerialized ==
    /\ Cardinality(InsideAllow) <= 1
    /\ \A c \in InsideAllow : lock.holder = Some(c)
    /\ \A i \in 1..(Len(allowLog) - 1) : allowLog[i] <= allowLog[i + 1]
    /\ \A i \in 1..(Len(timestamps) - 1) : timestamps[i] <= timestamps[i + 1]

\* a caller sleeps inside allow() while another caller waits for the lock,
\* after a timestamp was recorded
C19_Witness ==
    /\ InsideAllow # {}
    /\ lock.waiters # <<>>
    /\ allowLog # <<>>

\* tasks that get_next_task has returned and for which on_task_done has not
\* been executed
Unreleased == {t \in Tasks : exec[t] # "none" /\ notified[t] = 0}

\* C20: with a ConcurrentLimitStrategy, 0 <= running <= max_concurrent, and
\* running is the number of tasks returned by get_next_task for which
\* on_task_done has not been executed.
C20_RunningCountsUnreleased ==
    IsCap => /\ 0 <= running
             /\ running <= strategy.max_concurrent
             /\ running = Cardinality(Unreleased)

\* the cap is reached again after an earlier task gave its slot back
C20_Witness ==
    /\ IsCap
    /\ running = strategy.max_concurrent
    /\ \E t \in Tasks : notified[t] = 1
    /\ Unreleased # {}

==============================================================================
